---- MODULE Spec2Model ----
(***************************************************************************)
(* A model of metanl/wordlist.py: the Wordlist class with its lazily       *)
(* memoized properties, the module-level CACHE, the two loaders, save,     *)
(* merge_lists and the frequency queries.                                  *)
(*                                                                         *)
(* Text is a sequence of one-character strings (so that split, rsplit,     *)
(* rstrip, lower and the lexicographic order are computed as Python        *)
(* computes them); file names, which the code only formats, compares and   *)
(* uses as dictionary keys, are TLA+ strings.  Frequencies are Python      *)
(* floats: non-negative IEEE-754 binary64 values, kept as a normalised     *)
(* 53-bit significand (a multi-limb natural, TLC's integers being 32 bits  *)
(* wide) and a binary exponent, with round-to-nearest-even after every     *)
(* operation.  Overflow, subnormals, NaN and negative values do not arise  *)
(* for the inputs the model draws and are not represented.                 *)
(***************************************************************************)
EXTENDS Integers, Sequences, FiniteSets, TLC

(***************************************************************************)
(* Multi-limb naturals: least significant limb first, no high zero limb.   *)
(***************************************************************************)
LimbBits == 15
Base == 2^LimbBits

RECURSIVE BNorm(_)
BNorm(a) == IF a # <<>> /\ a[Len(a)] = 0 THEN BNorm(SubSeq(a, 1, Len(a) - 1)) ELSE a

RECURSIVE BFromNat(_)
BFromNat(n) == IF n = 0 THEN <<>> ELSE <<n % Base>> \o BFromNat(n \div Base)

RECURSIVE BAddC(_, _, _)
BAddC(a, b, c) ==
    IF a = <<>> /\ b = <<>> THEN (IF c = 0 THEN <<>> ELSE <<c>>)
    ELSE LET x == IF a = <<>> THEN 0 ELSE Head(a)
             y == IF b = <<>> THEN 0 ELSE Head(b)
             s == x + y + c
         IN <<s % Base>> \o BAddC(IF a = <<>> THEN a ELSE Tail(a),
                                  IF b = <<>> THEN b ELSE Tail(b), s \div Base)

BAdd(a, b) == BAddC(a, b, 0)

\* a - b for a >= b
RECURSIVE BSubC(_, _, _)
BSubC(a, b, c) ==
    IF a = <<>> THEN <<>>
    ELSE LET y == IF b = <<>> THEN 0 ELSE Head(b)
             d == Head(a) - y - c
         IN <<IF d < 0 THEN d + Base ELSE d>>
            \o BSubC(Tail(a), IF b = <<>> THEN b ELSE Tail(b), IF d < 0 THEN 1 ELSE 0)

BSub(a, b) == BNorm(BSubC(a, b, 0))

\* -1, 0, 1 as a < b, a = b, a > b
RECURSIVE BCmpFrom(_, _, _)
BCmpFrom(a, b, i) ==
    IF i = 0 THEN 0
    ELSE IF a[i] < b[i] THEN -1
    ELSE IF a[i] > b[i] THEN 1
    ELSE BCmpFrom(a, b, i - 1)

BCmp(a, b) ==
    IF Len(a) < Len(b) THEN -1
    ELSE IF Len(a) > Len(b) THEN 1
    ELSE BCmpFrom(a, b, Len(a))

RECURSIVE BMulSmallC(_, _, _)
BMulSmallC(a, k, c) ==
    IF a = <<>> THEN (IF c = 0 THEN <<>> ELSE <<c>>)
    ELSE LET p == Head(a) * k + c
         IN <<p % Base>> \o BMulSmallC(Tail(a), k, p \div Base)

\* a * k for 0 <= k < Base
BMulSmall(a, k) == BNorm(BMulSmallC(a, k, 0))

RECURSIVE BMul(_, _)
BMul(a, b) ==
    IF b = <<>> \/ a = <<>> THEN <<>>
    ELSE BAdd(BMulSmall(a, Head(b)),
              LET r == BMul(a, Tail(b)) IN IF r = <<>> THEN r ELSE <<0>> \o r)

RECURSIVE Zeros(_)
Zeros(n) == IF n = 0 THEN <<>> ELSE <<0>> \o Zeros(n - 1)

\* a * 2^k
BShl(a, k) ==
    IF a = <<>> THEN a
    ELSE Zeros(k \div LimbBits) \o BMulSmall(a, 2^(k % LimbBits))

RECURSIVE BDivSmallFrom(_, _, _, _)
BDivSmallFrom(a, k, i, r) ==
    IF i = 0 THEN <<>>
    ELSE LET x == r * Base + a[i]
         IN BDivSmallFrom(a, k, i - 1, x % k) \o <<x \div k>>

\* floor(a / k) for 0 < k <= Base
BDivSmall(a, k) == BNorm(BDivSmallFrom(a, k, Len(a), 0))

RECURSIVE BModSmallFrom(_, _, _, _)
BModSmallFrom(a, k, i, r) ==
    IF i = 0 THEN r ELSE BModSmallFrom(a, k, i - 1, (r * Base + a[i]) % k)

BModSmall(a, k) == BModSmallFrom(a, k, Len(a), 0)

\* floor(a / 2^k)
BShr(a, k) ==
    LET w == k \div LimbBits
    IN IF w >= Len(a) THEN <<>>
       ELSE BDivSmall(SubSeq(a, w + 1, Len(a)), 2^(k % LimbBits))

\* a mod 2^k
BLow(a, k) ==
    LET w == k \div LimbBits
    IN IF w >= Len(a) THEN a
       ELSE BNorm(SubSeq(a, 1, w) \o <<a[w + 1] % (2^(k % LimbBits))>>)

RECURSIVE NatBitLen(_)
NatBitLen(n) == IF n = 0 THEN 0 ELSE 1 + NatBitLen(n \div 2)

BBitLen(a) == IF a = <<>> THEN 0 ELSE LimbBits * (Len(a) - 1) + NatBitLen(a[Len(a)])

BOdd(a) == a # <<>> /\ a[1] % 2 = 1

(***************************************************************************)
(* Python float: binary64, value m * 2^e with 2^52 <= m < 2^53, or zero.   *)
(***************************************************************************)
Precision == 53

FZero == [m |-> <<>>, e |-> 0]

\* round-to-nearest-even of m * 2^e (plus a positive remainder below the last
\* bit of m when sticky) to Precision bits
RoundHalfEven(q, c, sticky) ==
    IF c = 1 \/ (c = 0 /\ (sticky \/ BOdd(q))) THEN BAdd(q, <<1>>) ELSE q

FRoundV(m, e, sticky) ==
    LET k == BBitLen(m) - Precision
    IN IF m = <<>> THEN FZero
       ELSE IF k <= 0 THEN [m |-> BShl(m, 0 - k), e |-> e + k]
       ELSE CHOOSE r \in {IF BBitLen(q1) > Precision
                          THEN [m |-> BShr(q1, 1), e |-> e + k + 1]
                          ELSE [m |-> q1, e |-> e + k] :
                          q1 \in {RoundHalfEven(BShr(m, k),
                                                BCmp(BLow(m, k), BShl(<<1>>, k - 1)),
                                                sticky)}} : TRUE

\* (the operands of the float operations are bound as values, so that TLC
\* evaluates each of them once)
FRound(m, e, sticky) ==
    CHOOSE r \in {FRoundV(mv, ev, sv) : mv \in {m}, ev \in {e}, sv \in {sticky}} : TRUE

\* float(n) for a natural n below 2^31
FromNat(n) == FRound(BFromNat(n), 0, FALSE)

\* a * b
FMul(a, b) ==
    CHOOSE r \in {IF x.m = <<>> \/ y.m = <<>> THEN FZero
                  ELSE FRound(BMul(x.m, y.m), x.e + y.e, FALSE) : x \in {a}, y \in {b}} : TRUE

\* one more quotient bit of r / d: s is the pair <<q, r>> with r < d
DivStep(s, d) ==
    CHOOSE t \in {IF BCmp(r2, d) >= 0 THEN <<BAdd(q2, <<1>>), BSub(r2, d)>> ELSE <<q2, r2>> :
                  q2 \in {BShl(s[1], 1)}, r2 \in {BShl(s[2], 1)}} : TRUE

\* n more quotient bits
RECURSIVE DivBits(_, _, _)
DivBits(s, d, n) ==
    IF n = 0 THEN s
    ELSE CHOOSE r \in {DivBits(t, d, n - 1) : t \in {DivStep(v, d) : v \in {s}}} : TRUE

GuardBits == Precision + 2

\* the quotient bit by bit
FDivLong(a, b) ==
    LET ge == BCmp(a.m, b.m) >= 0
        q0 == IF ge THEN <<1>> ELSE <<>>
        r0 == IF ge THEN BSub(a.m, b.m) ELSE a.m
    IN CHOOSE r \in {FRound(qr[1], a.e - b.e - GuardBits, qr[2] # <<>>) :
                     qr \in {DivBits(<<q0, r0>>, b.m, GuardBits)}} : TRUE

\* the quotient limb by limb, for a divisor whose significand has one limb
\* that is not 0: a.m * Base^2 divided by that limb
FDivShort(a, b) ==
    CHOOSE r \in {FRound(BDivSmall(n, k), a.e - b.e - LimbBits * (Len(b.m) + 1),
                         BModSmall(n, k) # 0) :
                  n \in {Zeros(2) \o a.m}, k \in {b.m[Len(b.m)]}} : TRUE

FDivV(a, b) ==
    IF \A i \in 1..(Len(b.m) - 1) : b.m[i] = 0 THEN FDivShort(a, b) ELSE FDivLong(a, b)

\* a / b for b # 0
FDiv(a, b) ==
    CHOOSE r \in {IF x.m = <<>> THEN FZero ELSE FDivV(x, y) : x \in {a}, y \in {b}} : TRUE

FAddV(a, b) ==
    LET hi == IF a.e >= b.e THEN a ELSE b
        lo == IF a.e >= b.e THEN b ELSE a
        d  == hi.e - lo.e
    IN IF d > GuardBits THEN hi
       ELSE FRound(BAdd(BShl(hi.m, d), lo.m), lo.e, FALSE)

\* a + b
FAdd(a, b) ==
    CHOOSE r \in {IF x.m = <<>> THEN y ELSE IF y.m = <<>> THEN x ELSE FAddV(x, y) :
                  x \in {a}, y \in {b}} : TRUE

\* a < b
FLess(a, b) ==
    \E x \in {a}, y \in {b} :
        IF y.m = <<>> THEN FALSE
        ELSE IF x.m = <<>> THEN TRUE
        ELSE x.e < y.e \/ (x.e = y.e /\ BCmp(x.m, y.m) = -1)

\* the float just above and just below a positive float
FNext(a) ==
    LET m1 == BAdd(a.m, <<1>>)
    IN IF BBitLen(m1) > Precision THEN [m |-> BShr(m1, 1), e |-> a.e + 1]
       ELSE [m |-> m1, e |-> a.e]

FPrev(a) ==
    LET m1 == BSub(a.m, <<1>>)
    IN IF BBitLen(m1) < Precision THEN [m |-> BAdd(BShl(m1, 1), <<1>>), e |-> a.e - 1]
       ELSE [m |-> m1, e |-> a.e]

(***************************************************************************)
(* Text: a str is a sequence of one-character strings.                     *)
(***************************************************************************)
\* the characters of the model in code-point order
Ascii ==
    <<"\t", "\n", "\f", "\r", " ", ",", ".",
      "0", "1", "2", "3", "4", "5", "6", "7", "8", "9",
      "A", "B", "C", "D", "E", "F", "G", "H", "I", "J", "K", "L", "M",
      "N", "O", "P", "Q", "R", "S", "T", "U", "V", "W", "X", "Y", "Z",
      "a", "b", "c", "d", "e", "f", "g", "h", "i", "j", "k", "l", "m",
      "n", "o", "p", "q", "r", "s", "t", "u", "v", "w", "x", "y", "z", "|">>

CharCode(c) == CHOOSE i \in 1..Len(Ascii) : Ascii[i] = c

Digits == {"0", "1", "2", "3", "4", "5", "6", "7", "8", "9"}
DigitValue(c) == CharCode(c) - CharCode("0")
DigitChar(d) == Ascii[CharCode("0") + d]

Upper == {Ascii[i] : i \in CharCode("A")..CharCode("Z")}

\* str.isspace
Whitespace == {" ", "\t", "\n", "\r", "\f"}

\* a < b for str (lexicographic by code point)
RECURSIVE StrLess(_, _)
StrLess(a, b) ==
    IF b = <<>> THEN FALSE
    ELSE IF a = <<>> THEN TRUE
    ELSE IF Head(a) # Head(b) THEN CharCode(Head(a)) < CharCode(Head(b))
    ELSE StrLess(Tail(a), Tail(b))

\* str.lower
LowerChar(c) == IF c \in Upper THEN Ascii[CharCode(c) + 26] ELSE c
Lower(s) == [i \in 1..Len(s) |-> LowerChar(s[i])]

\* str.rstrip()
RECURSIVE RStrip(_)
RStrip(s) ==
    IF s # <<>> /\ s[Len(s)] \in Whitespace THEN RStrip(SubSeq(s, 1, Len(s) - 1)) ELSE s

\* c in s
Contains(s, c) == \E i \in 1..Len(s) : s[i] = c

\* str.split(sep) for a one-character sep
RECURSIVE Split(_, _)
Split(s, sep) ==
    IF ~Contains(s, sep) THEN <<s>>
    ELSE LET i == CHOOSE j \in 1..Len(s) : s[j] = sep /\ \A k \in 1..(j - 1) : s[k] # sep
         IN <<SubSeq(s, 1, i - 1)>> \o Split(SubSeq(s, i + 1, Len(s)), sep)

\* (a variant for comparison: the split at the leftmost sep, str.split(sep, 1))
Split1(s, sep) ==
    IF ~Contains(s, sep) THEN <<s>>
    ELSE LET i == CHOOSE j \in 1..Len(s) : s[j] = sep /\ \A k \in 1..(j - 1) : s[k] # sep
         IN <<SubSeq(s, 1, i - 1), SubSeq(s, i + 1, Len(s))>>

\* str.rsplit(sep, 1) for a one-character sep
RSplit1(s, sep) ==
    IF ~Contains(s, sep) THEN <<s>>
    ELSE LET i == CHOOSE j \in 1..Len(s) : s[j] = sep /\ \A k \in (j + 1)..Len(s) : s[k] # sep
         IN <<SubSeq(s, 1, i - 1), SubSeq(s, i + 1, Len(s))>>

\* the str as a dictionary key or file name
RECURSIVE Join(_)
Join(s) == IF s = <<>> THEN "" ELSE Head(s) \o Join(Tail(s))

RECURSIVE DigitsValue(_)
DigitsValue(s) ==
    IF s = <<>> THEN 0 ELSE 10 * DigitsValue(SubSeq(s, 1, Len(s) - 1)) + DigitValue(s[Len(s)])

AllDigits(s) == \A i \in 1..Len(s) : s[i] \in Digits

\* float(s) for unsigned decimal literals "ddd" and "ddd.ddd", correctly
\* rounded: the literal's digits as a whole number, divided by the power of
\* ten of its fraction (both exact).  Text that is no number raises
\* ValueError; the other forms float accepts (signs, exponents, inf, nan) are
\* not among the texts of the model's files.
IsFloatText(s) ==
    LET parts == Split(s, ".")
    IN /\ Len(parts) \in {1, 2}
       /\ \A i \in 1..Len(parts) : AllDigits(parts[i])
       /\ \E i \in 1..Len(parts) : parts[i] # <<>>

ParseFloat(s) ==
    LET parts == Split(s, ".")
        frac  == IF Len(parts) = 2 THEN parts[2] ELSE <<>>
    IN FDiv(FromNat(DigitsValue(parts[1] \o frac)), FromNat(10^Len(frac)))

\* the decimal digits of a natural
RECURSIVE NatText(_)
NatText(n) ==
    IF n < 10 THEN <<DigitChar(n)>> ELSE NatText(n \div 10) \o <<DigitChar(n % 10)>>

RECURSIVE BText(_)
BText(a) ==
    IF Len(a) <= 1 THEN NatText(IF a = <<>> THEN 0 ELSE a[1])
    ELSE CHOOSE r \in {BText(BDivSmall(v, 10)) \o <<DigitChar(BModSmall(v, 10))>> :
                       v \in {a}} : TRUE

\* "%1.1f" % f: the exact value of f rounded to tenths, ties to even
Tenths(n, e) ==
    IF e >= 0 THEN BShl(n, e)
    ELSE RoundHalfEven(BShr(n, 0 - e), BCmp(BLow(n, 0 - e), BShl(<<1>>, 0 - e - 1)), FALSE)

FormatTenths(f) ==
    CHOOSE r \in {BText(BDivSmall(t, 10)) \o <<".", DigitChar(BModSmall(t, 10))>> :
                  t \in {Tenths(BMulSmall(f.m, 10), f.e)}} : TRUE

\* the integer an integer-valued float holds, for values below 2^15
FIsSmallNat(f) ==
    f.m = <<>> \/ (f.e <= 0 /\ f.e > 0 - Precision /\ BLow(f.m, 0 - f.e) = <<>>
                   /\ Len(BShr(f.m, 0 - f.e)) = 1)
FSmallNat(f) == IF f.m = <<>> THEN 0 ELSE BShr(f.m, 0 - f.e)[1]

\* 10 ** y.  The log-scale files of the model hold multiples of 10 dB from 0
\* to 90, for which y is a whole number and the power is exact; the operator
\* is undefined elsewhere.
Pow10(y) ==
    IF FIsSmallNat(y) /\ FSmallNat(y) <= 9 THEN FromNat(10^FSmallNat(y))
    ELSE CHOOSE f \in {} : TRUE

(***************************************************************************)
(* Results of calls: a returned value or a raised exception (its class and *)
(* the place that raises it).                                              *)
(***************************************************************************)
Ok(v) == [ok |-> TRUE, val |-> v]
Raise(exc, at) == [ok |-> FALSE, exc |-> exc, at |-> at]

\* None, as a value unequal to every float
None == [none |-> TRUE]

(***************************************************************************)
(* dict: a function from its keys.                                         *)
(***************************************************************************)
EmptyDict == [k \in {} |-> FZero]
DictSet(d, k, v) == [x \in DOMAIN d \cup {k} |-> IF x = k THEN v ELSE d[x]]
DictGet(d, k, default) == IF k \in DOMAIN d THEN d[k] ELSE default
DictDel(d, k) == [x \in DOMAIN d \ {k} |-> d[x]]
Values(d) == {d[k] : k \in DOMAIN d}

(***************************************************************************)
(* metanl.general.preprocess_text: not part of wordlist.py.  It cleans a   *)
(* text up without lower-casing it; the clean-up is represented by the     *)
(* removal of the control character form feed.                             *)
(***************************************************************************)
RECURSIVE preprocess_text(_)
preprocess_text(text) ==
    IF text = <<>> THEN <<>>
    ELSE (IF Head(text) = "\f" THEN <<>> ELSE <<Head(text)>>) \o preprocess_text(Tail(text))

(***************************************************************************)
(* class Wordlist.  An instance is its __dict__: worddict, and, once a     *)
(* lazy_property has been read, sorted_words and max_freq.  (__init__ also *)
(* sets _sorted_words = None, which nothing reads.)                        *)
(***************************************************************************)
Wordlist(worddict) == [worddict |-> worddict]

\* lazy_property.__get__ behind the instance lookup: the instance attribute
\* if setattr has stored one, else result, which is what self.func(instance)
\* gives, stored when func returns
lazy_property(self, name, result) ==
    IF name \in DOMAIN self THEN [res |-> Ok(self[name]), self |-> self]
    ELSE IF result.ok
    THEN [res |-> result, self |-> [a \in DOMAIN self \cup {name} |->
                                     IF a = name THEN result.val ELSE self[a]]]
    ELSE [res |-> result, self |-> self]

\* (a variant for comparison: the key (self.worddict[word], word), ascending
\* frequency)
KeyLessAscending(worddict, v, w) ==
    FLess(worddict[v], worddict[w]) \/ (worddict[v] = worddict[w] /\ StrLess(v, w))

\* the sort key (-self.worddict[word], word)
KeyLess(worddict, v, w) ==
    FLess(worddict[w], worddict[v]) \/ (worddict[v] = worddict[w] /\ StrLess(v, w))

RECURSIVE Sorted(_, _)
Sorted(words, worddict) ==
    IF words = {} THEN <<>>
    ELSE LET first == CHOOSE v \in words : \A w \in words \ {v} : KeyLess(worddict, v, w)
         IN <<first>> \o Sorted(words \ {first}, worddict)

sorted_words_func(self) == Ok(Sorted(DOMAIN self.worddict, self.worddict))

sorted_words(self) == lazy_property(self, "sorted_words", sorted_words_func(self))

\* __len__
len(self) == Cardinality(DOMAIN self.worddict)

\* (a variant for comparison: min instead of max)
min_freq_func(self) ==
    IF Cardinality(DOMAIN self.worddict) = 0 THEN Raise("ValueError", "max_freq")
    ELSE Ok(CHOOSE v \in Values(self.worddict) :
                \A u \in Values(self.worddict) : ~FLess(u, v))

max_freq_func(self) ==
    IF len(self) = 0 THEN Raise("ValueError", "max_freq")
    ELSE Ok(CHOOSE v \in Values(self.worddict) :
                \A u \in Values(self.worddict) : ~FLess(v, u))

\* (a variant for comparison: a property that computes and stores its value at
\* every read)
max_freq_recomputed(self) ==
    lazy_property([a \in DOMAIN self \ {"max_freq"} |-> self[a]], "max_freq",
                  max_freq_func(self))

max_freq(self) == lazy_property(self, "max_freq", max_freq_func(self))

\* words, keys
words(self) == sorted_words(self)

\* iteritems, run to its end: it raises KeyError when a memoized word has
\* left worddict
iteritems(self) ==
    LET sw == sorted_words(self)
        ws == sw.res.val
    IN IF \E i \in 1..Len(ws) : ws[i] \notin DOMAIN self.worddict
       THEN [res |-> Raise("KeyError", "iteritems"), self |-> sw.self]
       ELSE [res |-> Ok([i \in 1..Len(ws) |-> <<ws[i], self.worddict[ws[i]]>>]),
             self |-> sw.self]

\* get, __getitem__
get(self, word, default) == DictGet(self.worddict, word, default)

\* __contains__
contains(self, word) == word \in DOMAIN self.worddict

\* _load_stream
RECURSIVE load_stream_from(_, _)
load_stream_from(stream, worddict) ==
    IF stream = <<>> THEN Ok(Wordlist(worddict))
    ELSE LET fields == Split(RStrip(Head(stream)), ",")
         IN IF Len(fields) # 2 THEN Raise("ValueError", "unpack")
            ELSE IF ~IsFloatText(fields[2]) THEN Raise("ValueError", "float")
            ELSE load_stream_from(Tail(stream),
                                  DictSet(worddict, fields[1], ParseFloat(fields[2])))

load_stream(stream) == load_stream_from(stream, EmptyDict)

\* _load_new_stream; mode is 0 for None
RECURSIVE load_new_stream_from(_, _, _)
load_new_stream_from(stream, worddict, mode0) ==
    IF stream = <<>> THEN Ok(Wordlist(worddict))
    ELSE LET line == Head(stream)
             mode == IF mode0 # 0 THEN mode0
                     ELSE IF Contains(line, "\t") THEN 2
                     ELSE IF Contains(line, ",") THEN 1
                     ELSE 0
             fields == Split(RStrip(line), IF mode = 1 THEN "," ELSE "\t")
         IN IF mode = 0 THEN Raise("ValueError", "format")
            ELSE IF Len(fields) # 2 THEN Raise("ValueError", "unpack")
            ELSE IF ~IsFloatText(fields[2]) THEN Raise("ValueError", "float")
            ELSE LET number == ParseFloat(fields[2])
                     freq == IF mode = 1 THEN number ELSE Pow10(FDiv(number, FromNat(10)))
                     word == Lower(preprocess_text(fields[1]))
                 IN load_new_stream_from(Tail(stream),
                        DictSet(worddict, word, FAdd(DictGet(worddict, word, FZero), freq)),
                        mode)

load_new_stream(stream) == load_new_stream_from(stream, EmptyDict, 0)

\* the lines save writes: "%s,%1.1f" % (word, self.get(word)) for each of
\* sorted_words
save_lines(self) ==
    LET ws == sorted_words(self).res.val
    IN [i \in 1..Len(ws) |-> ws[i] \o <<",">> \o FormatTenths(get(self, ws[i], FZero)) \o <<"\n">>]

(***************************************************************************)
(* The files the program can see.  DataFiles are the package's             *)
(* data/wordlists/<filename> resources, ExternalFiles the files at other   *)
(* paths; a name that is no key has no file.                               *)
(***************************************************************************)
W_the == <<"t", "h", "e">>
W_The == <<"T", "h", "e">>
W_of  == <<"o", "f">>
W_an  == <<"a", "n">>
W_le  == <<"l", "e">>
W_de  == <<"d", "e">>

Line(word, sep, number) == word \o <<sep>> \o number \o <<"\n">>

DataFiles ==
    [f \in {"multi-en.txt", "leeds-internet-de.txt", "leeds-internet-nl.txt",
            "leeds-internet-ro.txt"} |->
        CASE f = "multi-en.txt" ->
                 <<Line(W_of, ",", <<"3">>), Line(W_the, ",", <<"1", "9">>),
                   Line(W_an, ",", <<"3", ".", "0">>)>>
          [] f = "leeds-internet-de.txt" -> <<>>
          [] f = "leeds-internet-nl.txt" -> <<Line(W_de, ",", <<"0">>)>>
          [] f = "leeds-internet-ro.txt" -> <<Line(W_de, ",", <<"7">>), W_le \o <<"\n">>>>]

\* a path is the sequence of its pieces, every "/" a piece of its own
P_a_new  == <<"/", "a", "/", "new.txt">>
P_b_new  == <<"/", "b", "/", "new.txt">>
P_a_en   == <<"/", "a", "/", "multi-en.txt">>
P_a_bad  == <<"/", "a", "/", "bad.txt">>
P_a_cut  == <<"/", "a", "/", "cut.txt">>
P_a_none == <<"/", "a", "/", "none.txt">>

ExternalFiles ==
    [f \in {Join(P_a_new), Join(P_b_new), Join(P_a_en), Join(P_a_bad), Join(P_a_cut)} |->
        CASE f = Join(P_a_new) ->
                 <<Line(W_The, ",", <<"5">>), Line(W_of, ",", <<"5">>),
                   Line(W_the, ",", <<"2">>)>>
          [] f = Join(P_b_new) ->
                 <<Line(W_an, "\t", <<"1", "0">>), Line(W_of, "\t", <<"0">>)>>
          [] f = Join(P_a_en) -> <<Line(W_the, ",", <<"4", "9">>)>>
          [] f = Join(P_a_bad) -> <<W_the \o <<" ", "5", "\n">>>>
          [] f = Join(P_a_cut) -> <<Line(W_the, ",", <<"5">>), W_of \o <<"\n">>>>]

\* os.path.split(path)[-1]
RECURSIVE PathTail(_)
PathTail(path) ==
    IF path = <<>> \/ path[Len(path)] = "/" THEN ""
    ELSE PathTail(SubSeq(path, 1, Len(path) - 1)) \o path[Len(path)]

(***************************************************************************)
(* The program state.                                                      *)
(*   heap    the Wordlist instances made so far; an instance is known by   *)
(*           its index                                                     *)
(*   CACHE   the module-level dict, file name -> instance                  *)
(*   saved   the files save has written, file name -> lines                *)
(*   reads   how often each data file has been opened and read             *)
(*   ret     the last call: its name, arguments and result                 *)
(*   first, stored, lastNew   history: per file name the instance the      *)
(*           first successful load returned, the instance load_new last    *)
(*           put in the CACHE, the instance load_new last returned         *)
(*   merges, edits   history: the calls of merge_lists made, the changes   *)
(*           callers have made to the worddict they handed to Wordlist     *)
(***************************************************************************)
VARIABLES heap, CACHE, saved, reads, ret, first, stored, lastNew, merges, edits

vars == <<heap, CACHE, saved, reads, ret, first, stored, lastNew, merges, edits>>

NoDict == [k \in {} |-> 0]

\* the part of the state the functions below read and write
Here == [heap |-> heap, CACHE |-> CACHE, saved |-> saved, reads |-> reads]

Count(d, k) == DictGet(d, k, 0)

\* (a variant for comparison: load without the look in the CACHE)
load_uncached(st, filename) ==
    IF filename \notin DOMAIN DataFiles
    THEN [st |-> st, res |-> Raise("IOError", "resource_stream")]
    ELSE LET st1 == [st EXCEPT !.reads = DictSet(@, filename, Count(@, filename) + 1)]
             id  == Len(st.heap) + 1
         IN CHOOSE r \in {IF ~wordlist.ok THEN [st |-> st1, res |-> wordlist]
                          ELSE [st  |-> [st1 EXCEPT !.heap = Append(@, wordlist.val),
                                                    !.CACHE = DictSet(@, filename, id)],
                                res |-> Ok(id)] :
                          wordlist \in {load_stream(DataFiles[filename])}} : TRUE

\* Wordlist.load.  A call gives the state it leaves and its result.
load(st, filename) ==
    IF filename \in DOMAIN st.CACHE
    THEN [st |-> st, res |-> Ok(st.CACHE[filename])]
    ELSE IF filename \notin DOMAIN DataFiles
    THEN [st |-> st, res |-> Raise("IOError", "resource_stream")]
    ELSE LET st1 == [st EXCEPT !.reads = DictSet(@, filename, Count(@, filename) + 1)]
             id  == Len(st.heap) + 1
         IN CHOOSE r \in {IF ~wordlist.ok THEN [st |-> st1, res |-> wordlist]
                          ELSE [st  |-> [st1 EXCEPT !.heap = Append(@, wordlist.val),
                                                    !.CACHE = DictSet(@, filename, id)],
                                res |-> Ok(id)] :
                          wordlist \in {load_stream(DataFiles[filename])}} : TRUE

\* Wordlist.save; writable tells whether codecs.open(filename, 'w') succeeds
save(st, id, filename, writable) ==
    IF ~writable THEN [st |-> st, res |-> Raise("IOError", "codecs.open")]
    ELSE [st  |-> [st EXCEPT !.heap[id] = sorted_words(@).self,
                             !.saved = DictSet(@, filename, save_lines(st.heap[id]))],
          res |-> Ok(None)]

\* Wordlist.load_new
load_new(st, path_and_filename, writable) ==
    LET filename == PathTail(path_and_filename)
    IN IF Join(path_and_filename) \notin DOMAIN ExternalFiles
       THEN [st |-> st, res |-> Raise("IOError", "open")]
       ELSE LET id == Len(st.heap) + 1
                cached(wordlist) == [st EXCEPT !.heap = Append(@, wordlist.val),
                                               !.CACHE = DictSet(@, filename, id)]
            IN CHOOSE r \in {IF ~wordlist.ok THEN [st |-> st, res |-> wordlist]
                             ELSE CHOOSE q \in {IF ~sv.res.ok THEN sv
                                                ELSE [st |-> sv.st, res |-> Ok(id)] :
                                                sv \in {save(cached(wordlist), id, filename,
                                                             writable)}} : TRUE :
                             wordlist \in {load_new_stream(
                                               ExternalFiles[Join(path_and_filename)])}} : TRUE

\* the file name get_wordlist picks
wordlist_filename(lang) ==
    IF lang = <<"e", "n">> THEN "multi-en.txt"
    ELSE IF lang = <<"e", "n", "-", "b", "o", "o", "k", "s">> THEN "google-unigrams.txt"
    ELSE IF lang = <<"e", "n", "-", "t", "w", "i", "t", "t", "e", "r">> THEN "twitter.txt"
    ELSE IF lang = <<"m", "u", "l", "t", "i">> THEN "multilingual.txt"
    ELSE "leeds-internet-" \o Join(lang) \o ".txt"

get_wordlist(st, lang) == load(st, wordlist_filename(lang))

\* get_frequency; scale and default_freq are floats
\* (a variant for comparison: no check of the word for a space)
get_frequency_of_any_word(st1, id, mf, word, default_freq, scale) ==
    IF ~mf.ok THEN [st |-> st1, res |-> mf]
    ELSE IF mf.val = FZero
    THEN [st |-> st1, res |-> Raise("ZeroDivisionError", "get_frequency")]
    ELSE [st  |-> st1,
          res |-> Ok(FAdd(FMul(FDiv(scale, mf.val),
                               get(st1.heap[id], Lower(preprocess_text(word)), FZero)),
                          default_freq))]

\* get_frequency after get_wordlist has returned freqs and freqs.max_freq
\* has been read (mf): the division, the check for a space and the lookup
get_frequency_of(st1, id, mf, word, default_freq, scale) ==
    IF ~mf.ok THEN [st |-> st1, res |-> mf]
    ELSE IF mf.val = FZero
    THEN [st |-> st1, res |-> Raise("ZeroDivisionError", "get_frequency")]
    ELSE IF Contains(word, " ")
    THEN [st |-> st1, res |-> Raise("ValueError", "get_frequency")]
    ELSE [st  |-> st1,
          res |-> Ok(FAdd(FMul(FDiv(scale, mf.val),
                               get(st1.heap[id], Lower(preprocess_text(word)), FZero)),
                          default_freq))]

get_frequency(st, word, lang, default_freq, scale) ==
    CHOOSE r \in {IF ~freqs.res.ok
                  THEN IF freqs.res.exc = "ZeroDivisionError"
                       THEN [st |-> freqs.st, res |-> Ok(default_freq)]
                       ELSE freqs
                  ELSE CHOOSE q \in {get_frequency_of(
                                         [freqs.st EXCEPT !.heap[freqs.res.val] = mf.self],
                                         freqs.res.val, mf.res, word, default_freq, scale) :
                                     mf \in {max_freq(freqs.st.heap[freqs.res.val])}} : TRUE :
                  freqs \in {get_wordlist(st, lang)}} : TRUE

\* the default value of get_frequency's scale, 1e9
DefaultScale == FromNat(10^9)

\* multilingual_word_frequency
multilingual_word_frequency(st, multiword, default_freq) ==
    LET parts == RSplit1(multiword, "|")
    IN IF Len(parts) # 2
       THEN [st |-> st, res |-> Raise("ValueError", "multilingual_word_frequency")]
       ELSE get_frequency(st, parts[1], parts[2], default_freq, DefaultScale)

\* (a variant for comparison: totals[word + suffix] = freq * factor)
RECURSIVE add_items_overwriting(_, _, _, _)
add_items_overwriting(totals, items, suffix, factor) ==
    IF items = <<>> THEN totals
    ELSE add_items_overwriting(DictSet(totals, Head(items)[1] \o suffix,
                                       FMul(Head(items)[2], factor)),
                               Tail(items), suffix, factor)

\* the loop body of merge_lists: totals[word + suffix] += freq * factor for
\* every item, in the order iteritems gives them
RECURSIVE add_items(_, _, _, _)
add_items(totals, items, suffix, factor) ==
    IF items = <<>> THEN totals
    ELSE LET key == Head(items)[1] \o suffix
         IN add_items(DictSet(totals, key,
                              FAdd(DictGet(totals, key, FZero), FMul(Head(items)[2], factor))),
                      Tail(items), suffix, factor)

\* merge_lists.  An entry of weighted_lists is <<instance, suffix, weight>>,
\* weight a float or None.  The Wordlist it returns is handed to the caller
\* and kept nowhere else, so the result carries the instance itself.
RECURSIVE merge_from(_, _, _)
merge_from(st, weighted_lists, totals) ==
    IF weighted_lists = <<>> THEN [st |-> st, res |-> Ok(Wordlist(totals))]
    ELSE LET id     == Head(weighted_lists)[1]
             suffix == Head(weighted_lists)[2]
             weight == Head(weighted_lists)[3]
             scaled == weight # None /\ len(st.heap[id]) > 0
             mf     == max_freq(st.heap[id])
             st1    == IF scaled THEN [st EXCEPT !.heap[id] = mf.self] ELSE st
             items  == iteritems(st1.heap[id])
             st2    == [st1 EXCEPT !.heap[id] = items.self]
         IN IF scaled /\ mf.res.val = FZero
            THEN [st |-> st1, res |-> Raise("ZeroDivisionError", "merge_lists")]
            ELSE IF ~items.res.ok THEN [st |-> st2, res |-> items.res]
            ELSE merge_from(st2, Tail(weighted_lists),
                            add_items(totals, items.res.val, suffix,
                                      IF scaled THEN FDiv(weight, mf.res.val)
                                      ELSE FromNat(1)))

merge_lists(st, weighted_lists) == merge_from(st, weighted_lists, EmptyDict)

(***************************************************************************)
(* Bounds and the inputs the calls are drawn from.                         *)
(***************************************************************************)
\* instances load_new may add to the heap
MaxObjs == 3
\* reads of one data file (a file that does not parse is read by every load)
MaxReads == 2
\* entries of a weighted_lists argument
MaxLists == 2
\* calls of merge_lists
MaxMerges == 2
\* changes a caller makes to a worddict it has handed to Wordlist
MaxMutations == 2

LoadNames == {"multi-en.txt", "leeds-internet-ro.txt", "new.txt", "none.txt"}
Paths == {P_a_new, P_b_new, P_a_en, P_a_bad, P_a_cut, P_a_none}

L_en == <<"e", "n">>
L_de == <<"d", "e">>
L_nl == <<"n", "l">>
L_xx == <<"x", "x">>
Langs == {L_en, L_de, L_nl, L_xx}

\* query words: a capitalised, soiled spelling of the top word, an absent
\* word, a word with a space, a word with a tab
W_The_ff == <<"T", "\f", "h", "e">>
W_of_an  == W_of \o <<" ">> \o W_an
W_of_tab_an == W_of \o <<"\t">> \o W_an
QueryWords == {W_The_ff, W_le, W_of_an, W_of_tab_an}

Defaults == {FZero, FromNat(5)}
Scales == {FromNat(42), FromNat(38)}

\* tagged words: word|lang, a word holding a bar of its own, no bar at all
Tagged ==
    {W_The \o <<"|">> \o L_en, W_le \o <<"|">> \o L_de,
     W_of \o <<"|">> \o W_an \o <<"|">> \o L_en, W_of_an \o <<"|">> \o L_en,
     W_the \o <<"|">> \o L_xx, W_the, W_the \o <<"|">>}

(***************************************************************************)
(* Actions: one call each.                                                 *)
(***************************************************************************)
NoCall == [op |-> "none", args |-> <<>>, res |-> Ok(None)]

Init ==
    /\ heap = <<>>
    /\ CACHE = NoDict
    /\ saved = NoDict
    /\ reads = NoDict
    /\ ret = NoCall
    /\ first = NoDict
    /\ stored = NoDict
    /\ lastNew = NoDict
    /\ merges = 0
    /\ edits = 0

\* the call's effect on the program state, and its record; a call that would
\* read a data file more than MaxReads times is left out
Return(op, args, r) ==
    /\ \A f \in DOMAIN r.st.reads : r.st.reads[f] <= MaxReads
    /\ heap' = r.st.heap
    /\ CACHE' = r.st.CACHE
    /\ saved' = r.st.saved
    /\ reads' = r.st.reads
    /\ ret' = [op |-> op, args |-> args, res |-> r.res]

Load(filename) ==
    /\ filename \in DOMAIN CACHE \/ Len(heap) < MaxObjs
    /\ \E r \in {load(Here, filename)} :
         /\ Return("load", <<filename>>, r)
         /\ first' = IF r.res.ok /\ filename \notin DOMAIN first
                     THEN DictSet(first, filename, r.res.val) ELSE first
    /\ UNCHANGED <<stored, lastNew, merges, edits>>

LoadNew(path, writable) ==
    /\ Len(heap) < MaxObjs
    /\ \E r \in {load_new(Here, path, writable)} :
         /\ Return("load_new", <<path>>, r)
         /\ stored' = IF r.st.CACHE # CACHE
                      THEN DictSet(stored, PathTail(path), r.st.CACHE[PathTail(path)])
                      ELSE stored
         /\ lastNew' = IF r.res.ok THEN DictSet(lastNew, PathTail(path), r.res.val)
                       ELSE lastNew
    /\ UNCHANGED <<first, merges, edits>>

GetFrequency(word, lang, default_freq, scale) ==
    /\ \E r \in {get_frequency(Here, word, lang, default_freq, scale)} :
         Return("get_frequency", <<word, lang, default_freq, scale>>, r)
    /\ UNCHANGED <<first, stored, lastNew, merges, edits>>

MultilingualWordFrequency(multiword, default_freq) ==
    /\ \E r \in {multilingual_word_frequency(Here, multiword, default_freq)} :
         Return("multilingual_word_frequency", <<multiword, default_freq>>, r)
    /\ UNCHANGED <<first, stored, lastNew, merges, edits>>

\* the cache: loads from the data directory and from elsewhere
Next ==
    \/ \E filename \in LoadNames : Load(filename)
    \/ \E path \in Paths, writable \in BOOLEAN : LoadNew(path, writable)

Spec == Init /\ [][Next]_vars

\* the queries, on the cache they fill
NextQuery ==
    \/ \E word \in QueryWords, lang \in Langs, default_freq \in Defaults, scale \in Scales :
         GetFrequency(word, lang, default_freq, scale)
    \/ \E multiword \in Tagged, default_freq \in Defaults :
         MultilingualWordFrequency(multiword, default_freq)

SpecQuery == Init /\ [][NextQuery]_vars

(***************************************************************************)
(* Tables a caller constructs: Wordlist(worddict).                         *)
(***************************************************************************)
TableWords == {W_The, W_of, W_the}
TableFreqs == {FromNat(3), FromNat(19)}
Worddicts == UNION {[ws -> TableFreqs] : ws \in SUBSET TableWords}

\* one table, just constructed
InitTable ==
    /\ heap \in {<<Wordlist(worddict)>> : worddict \in Worddicts}
    /\ CACHE = NoDict
    /\ saved = NoDict
    /\ reads = NoDict
    /\ ret = NoCall
    /\ first = NoDict
    /\ stored = NoDict
    /\ lastNew = NoDict
    /\ merges = 0
    /\ edits = 0

\* a method of instance id has run: r.self is the instance it leaves, r.res
\* its result
Read(op, id, args, r) ==
    /\ heap' = [heap EXCEPT ![id] = r.self]
    /\ ret' = [op |-> op, args |-> <<id>> \o args, res |-> r.res]
    /\ UNCHANGED <<CACHE, saved, reads, first, stored, lastNew, merges, edits>>

Words(id) == Read("words", id, <<>>, words(heap[id]))

IterItems(id) == Read("iteritems", id, <<>>, iteritems(heap[id]))

MaxFreq(id) == Read("max_freq", id, <<>>, max_freq(heap[id]))

Get(id, word) ==
    Read("get", id, <<word>>, [res |-> Ok(get(heap[id], word, FZero)), self |-> heap[id]])

SetItem(id, word, freq) ==
    /\ edits < MaxMutations
    /\ heap' = [heap EXCEPT ![id].worddict = DictSet(@, word, freq)]
    /\ ret' = [op |-> "setitem", args |-> <<id, word, freq>>, res |-> Ok(None)]
    /\ edits' = edits + 1
    /\ UNCHANGED <<CACHE, saved, reads, first, stored, lastNew, merges>>

DelItem(id, word) ==
    /\ edits < MaxMutations
    /\ word \in DOMAIN heap[id].worddict
    /\ heap' = [heap EXCEPT ![id].worddict = DictDel(@, word)]
    /\ ret' = [op |-> "delitem", args |-> <<id, word>>, res |-> Ok(None)]
    /\ edits' = edits + 1
    /\ UNCHANGED <<CACHE, saved, reads, first, stored, lastNew, merges>>

\* the methods of a table nobody changes
NextTable ==
    \E id \in 1..Len(heap) :
        \/ Words(id)
        \/ IterItems(id)
        \/ MaxFreq(id)
        \/ \E word \in TableWords : Get(id, word)

SpecTable == InitTable /\ [][NextTable]_vars

\* the same methods, with a caller that changes the worddict in between
NextMut ==
    \/ NextTable
    \/ \E id \in 1..Len(heap), word \in TableWords, freq \in TableFreqs : SetItem(id, word, freq)
    \/ \E id \in 1..Len(heap), word \in TableWords : DelItem(id, word)

SpecMut == InitTable /\ [][NextMut]_vars

(***************************************************************************)
(* merge_lists, on three tables: two words of different frequency, no      *)
(* word, a word of frequency zero.  The entries a caller passes are the    *)
(* first table as it is, scaled, and scaled under a suffix; the empty      *)
(* table scaled under a suffix; the zero table as it is and scaled.        *)
(***************************************************************************)
MergeTables ==
    <<Wordlist(DictSet(DictSet(EmptyDict, W_the, FromNat(19)), W_of, FromNat(3))),
      Wordlist(EmptyDict),
      Wordlist(DictSet(EmptyDict, W_of, FZero))>>

Suffixes == {<<>>, <<"|", "e", "n">>}
Weights == {None, FromNat(42)}
Entries ==
    {e \in (1..Len(MergeTables)) \X Suffixes \X Weights :
       e \in {<<1, <<>>, None>>, <<1, <<>>, FromNat(42)>>,
              <<1, <<"|", "e", "n">>, FromNat(42)>>,
              <<2, <<"|", "e", "n">>, FromNat(42)>>,
              <<3, <<>>, None>>, <<3, <<>>, FromNat(42)>>}}
WeightedLists == UNION {[1..n -> Entries] : n \in 0..MaxLists}

InitMerge ==
    /\ heap = MergeTables
    /\ CACHE = NoDict
    /\ saved = NoDict
    /\ reads = NoDict
    /\ ret = NoCall
    /\ first = NoDict
    /\ stored = NoDict
    /\ lastNew = NoDict
    /\ merges = 0
    /\ edits = 0

MergeLists(weighted_lists) ==
    /\ merges < MaxMerges
    /\ \E r \in {merge_lists(Here, weighted_lists)} :
         Return("merge_lists", <<weighted_lists>>, r)
    /\ merges' = merges + 1
    /\ UNCHANGED <<first, stored, lastNew, edits>>

NextMerge == \E weighted_lists \in WeightedLists : MergeLists(weighted_lists)

SpecMerge == InitMerge /\ [][NextMerge]_vars

(***************************************************************************)
(* The cache: load and load_new (Spec).                                    *)
(***************************************************************************)
\* C1, as stated: every successful load(filename) returns the instance the
\* first successful load of that filename returned, and no data file is read
\* more than once.
CacheIdentity ==
    /\ (ret.op = "load" /\ ret.res.ok) => ret.res.val = first[ret.args[1]]
    /\ \A f \in DOMAIN reads : reads[f] <= 1

\* C1, amended: a load that finds filename in the CACHE returns the cached
\* instance, reads nothing and changes nothing; every successful load returns
\* the instance load_new last stored under filename if there is one, else the
\* instance the first successful load returned; a data file is read more than
\* once only if its lines do not parse.
CacheHit ==
    [][ret'.op = "load" =>
         LET filename == ret'.args[1]
         IN /\ filename \in DOMAIN CACHE =>
                  /\ ret'.res = Ok(CACHE[filename])
                  /\ reads' = reads /\ CACHE' = CACHE /\ heap' = heap
            /\ ret'.res.ok =>
                  ret'.res.val = IF filename \in DOMAIN stored' THEN stored'[filename]
                                 ELSE first'[filename]
            /\ Count(reads', filename) > 1 => ~load_stream(DataFiles[filename]).ok]_vars

\* C1, the case reached: a load returns the instance a load_new has put in
\* the place of the one the first load returned
CacheHitReplaced ==
    /\ ret.op = "load" /\ ret.res.ok
    /\ ret.args[1] \in DOMAIN stored /\ ret.args[1] \in DOMAIN first
    /\ first[ret.args[1]] # stored[ret.args[1]]
    /\ ret.res.val = stored[ret.args[1]]

\* C8, as stated: after a successful load_new the CACHE maps the path's last
\* segment to the instance returned and the file saved under that name holds
\* its lines; a later successful load of that name returns the instance the
\* most recent successful load_new of that name returned.
LoadNewThenLoad ==
    /\ (ret.op = "load_new" /\ ret.res.ok) =>
          LET filename == PathTail(ret.args[1])
          IN /\ filename \in DOMAIN CACHE /\ CACHE[filename] = ret.res.val
             /\ filename \in DOMAIN saved
             /\ saved[filename] = save_lines(heap[ret.res.val])
    /\ (ret.op = "load" /\ ret.res.ok /\ ret.args[1] \in DOMAIN lastNew) =>
          ret.res.val = lastNew[ret.args[1]]

\* C10, as stated: a load or load_new that fails leaves the CACHE as it was.
NoPartialResults ==
    [][(ret'.op \in {"load", "load_new"} /\ ~ret'.res.ok) => CACHE' = CACHE]_vars

(***************************************************************************)
(* The queries (SpecQuery).                                                *)
(***************************************************************************)
\* C2, as stated: when the table of lang loads and is not empty and word has
\* no whitespace, get_frequency returns scale / max * get(word) + default;
\* with default 0 the top word gives exactly scale, an absent word exactly
\* default.
FrequencyFormula ==
    ret.op = "get_frequency" =>
        LET word         == ret.args[1]
            default_freq == ret.args[3]
            scale        == ret.args[4]
            filename     == wordlist_filename(ret.args[2])
        IN (/\ filename \in DOMAIN CACHE
            /\ DOMAIN heap[CACHE[filename]].worddict # {}
            /\ \A i \in 1..Len(word) : word[i] \notin Whitespace) =>
               LET table == heap[CACHE[filename]].worddict
                   top   == CHOOSE v \in Values(table) : \A u \in Values(table) : ~FLess(v, u)
                   key   == Lower(preprocess_text(word))
                   freq  == IF key \in DOMAIN table THEN table[key] ELSE FZero
               IN /\ ret.res.ok
                  /\ ret.res.val = FAdd(FMul(FDiv(scale, top), freq), default_freq)
                  /\ (freq = top /\ default_freq = FZero) => ret.res.val = scale
                  /\ key \notin DOMAIN table => ret.res.val = default_freq

\* C2, amended: when the table of lang loads, is not empty and has a largest
\* frequency above 0, and word has no space, get_frequency returns the float
\* (scale / max) * get(word) + default, each operation rounded; an absent word
\* gives exactly default, and with default 0 the top word gives scale or one
\* of its two float neighbours.
FrequencyRounded ==
    ret.op = "get_frequency" =>
        LET word         == ret.args[1]
            default_freq == ret.args[3]
            scale        == ret.args[4]
            filename     == wordlist_filename(ret.args[2])
        IN (/\ filename \in DOMAIN CACHE
            /\ DOMAIN heap[CACHE[filename]].worddict # {}
            /\ ~Contains(word, " ")) =>
               LET table == heap[CACHE[filename]].worddict
                   top   == CHOOSE v \in Values(table) : \A u \in Values(table) : ~FLess(v, u)
                   key   == Lower(preprocess_text(word))
                   freq  == IF key \in DOMAIN table THEN table[key] ELSE FZero
               IN top # FZero =>
                     /\ ret.res.ok
                     /\ ret.res.val = FAdd(FMul(FDiv(scale, top), freq), default_freq)
                     /\ (freq = top /\ default_freq = FZero) =>
                           ret.res.val \in {FPrev(scale), scale, FNext(scale)}
                     /\ key \notin DOMAIN table => ret.res.val = default_freq

\* C2, the case reached: the top word, default 0, and a result that is the
\* float just above scale
FrequencyInexact ==
    /\ ret.op = "get_frequency" /\ ret.res.ok
    /\ ret.args[3] = FZero
    /\ ret.res.val = FNext(ret.args[4])

\* C3, as stated: when the table of lang does not load, or is empty or holds
\* no frequency but 0 (so that the factor cannot be computed), get_frequency
\* returns the caller's default.
DefaultOnFailure ==
    ret.op = "get_frequency" =>
        LET filename == wordlist_filename(ret.args[2])
        IN (\/ filename \notin DOMAIN CACHE
            \/ \A w \in DOMAIN heap[CACHE[filename]].worddict :
                  heap[CACHE[filename]].worddict[w] = FZero) =>
               ret.res = Ok(ret.args[3])

\* C4, as stated: for a word with a whitespace character get_frequency raises
\* ValueError, whatever the language.
WhitespaceRejected ==
    (ret.op = "get_frequency" /\ \E i \in 1..Len(ret.args[1]) : ret.args[1][i] \in Whitespace) =>
        (~ret.res.ok /\ ret.res.exc = "ValueError")

\* C4, amended: for a word with a space get_frequency raises its ValueError
\* when the table of lang loads, is not empty and has a largest frequency
\* other than 0, and that only after the table is in the CACHE; a word without
\* a space (a tab is none) never gets this error.
SpaceRejected ==
    ret.op = "get_frequency" =>
        LET word     == ret.args[1]
            filename == wordlist_filename(ret.args[2])
            loaded   == filename \in DOMAIN CACHE
            table    == heap[CACHE[filename]].worddict
        IN /\ (/\ Contains(word, " ")
               /\ loaded
               /\ \E w \in DOMAIN table : table[w] # FZero) =>
                 ret.res = Raise("ValueError", "get_frequency")
           /\ ret.res = Raise("ValueError", "get_frequency") =>
                 (Contains(word, " ") /\ loaded)

\* C4, the case reached: a word with a space, a table that is there, and the
\* ValueError of get_frequency
SpaceRejectedReached ==
    /\ ret.op = "get_frequency"
    /\ Contains(ret.args[1], " ")
    /\ wordlist_filename(ret.args[2]) \in DOMAIN CACHE
    /\ ret.res = Raise("ValueError", "get_frequency")

\* C5: multilingual_word_frequency(multiword, default) raises ValueError and
\* changes nothing when multiword has no bar, and else does exactly what
\* get_frequency(word, lang, default) does, same result and same effect, for
\* word the text before the rightmost bar and lang the text after it.
RightmostBar ==
    [][ret'.op = "multilingual_word_frequency" =>
         LET multiword    == ret'.args[1]
             default_freq == ret'.args[2]
         IN /\ ~Contains(multiword, "|") =>
                  /\ ret'.res = Raise("ValueError", "multilingual_word_frequency")
                  /\ heap' = heap /\ CACHE' = CACHE /\ reads' = reads
            /\ \A i \in 1..Len(multiword) :
                  (multiword[i] = "|" /\ \A k \in (i + 1)..Len(multiword) : multiword[k] # "|") =>
                     \E r \in {get_frequency(Here, SubSeq(multiword, 1, i - 1),
                                             SubSeq(multiword, i + 1, Len(multiword)),
                                             default_freq, DefaultScale)} :
                        /\ ret'.res = r.res
                        /\ heap' = r.st.heap /\ CACHE' = r.st.CACHE /\ reads' = r.st.reads]_vars

\* C5, the case reached: a word with a bar of its own has been looked up
TwoBarsReached ==
    /\ ret.op = "multilingual_word_frequency" /\ ret.res.ok
    /\ Cardinality({i \in 1..Len(ret.args[1]) : ret.args[1][i] = "|"}) = 2

(***************************************************************************)
(* merge_lists (SpecMerge).                                                *)
(***************************************************************************)
\* the largest frequency of a worddict that is not empty
Largest(worddict) ==
    CHOOSE v \in Values(worddict) : \A u \in Values(worddict) : ~FLess(v, u)

\* the factor of an entry <<instance, suffix, weight>>
FactorOf(entry) ==
    IF entry[3] = None \/ DOMAIN heap[entry[1]].worddict = {} THEN FromNat(1)
    ELSE FDiv(entry[3], Largest(heap[entry[1]].worddict))

\* the keys an entry gives
KeysOf(entry) == {w \o entry[2] : w \in DOMAIN heap[entry[1]].worddict}

\* the sum, in the order of the entries, of freq * factor over the first n
\* entries' words that give key
RECURSIVE SumFor(_, _, _)
SumFor(weighted_lists, key, n) ==
    IF n = 0 THEN FZero
    ELSE LET entry == weighted_lists[n]
             table == heap[entry[1]].worddict
         IN IF key \in KeysOf(entry)
            THEN FAdd(SumFor(weighted_lists, key, n - 1),
                      FMul(table[CHOOSE w \in DOMAIN table : w \o entry[2] = key],
                           FactorOf(entry)))
            ELSE SumFor(weighted_lists, key, n - 1)

\* entry i has a weight and words, and none of its keys is a key of another
\* entry
ScaledAlone(weighted_lists, i) ==
    /\ weighted_lists[i][3] # None
    /\ KeysOf(weighted_lists[i]) # {}
    /\ \A j \in (1..Len(weighted_lists)) \ {i} :
          KeysOf(weighted_lists[j]) \cap KeysOf(weighted_lists[i]) = {}

\* C6, as stated: merge_lists returns a table whose keys are the words with
\* their suffixes and whose values are the sums of freq * factor over the
\* entries and words that give the key; the largest value of an entry with a
\* weight and words, whose keys no other entry gives, equals its weight.
MergeSums ==
    ret.op = "merge_lists" =>
        LET weighted_lists == ret.args[1]
        IN /\ ret.res.ok
           /\ DOMAIN ret.res.val.worddict =
                 UNION {KeysOf(weighted_lists[i]) : i \in 1..Len(weighted_lists)}
           /\ \A key \in DOMAIN ret.res.val.worddict :
                 ret.res.val.worddict[key] = SumFor(weighted_lists, key, Len(weighted_lists))
           /\ \A i \in 1..Len(weighted_lists) :
                 ScaledAlone(weighted_lists, i) =>
                    \E key \in KeysOf(weighted_lists[i]) :
                       /\ ret.res.val.worddict[key] = weighted_lists[i][3]
                       /\ \A other \in KeysOf(weighted_lists[i]) :
                             ~FLess(ret.res.val.worddict[key], ret.res.val.worddict[other])

\* C6, amended: merge_lists returns that table, each product and each sum
\* rounded, the sums taken in the order of the entries, provided no entry with
\* a weight has words and a largest frequency of 0; the largest value of an
\* entry with a weight and words, whose keys no other entry gives, is its
\* weight or one of the weight's two float neighbours.
MergeSumsRounded ==
    ret.op = "merge_lists" =>
        LET weighted_lists == ret.args[1]
        IN (\A i \in 1..Len(weighted_lists) :
               (weighted_lists[i][3] # None /\ KeysOf(weighted_lists[i]) # {}) =>
                  Largest(heap[weighted_lists[i][1]].worddict) # FZero) =>
           /\ ret.res.ok
           /\ DOMAIN ret.res.val.worddict =
                 UNION {KeysOf(weighted_lists[i]) : i \in 1..Len(weighted_lists)}
           /\ \A key \in DOMAIN ret.res.val.worddict :
                 ret.res.val.worddict[key] = SumFor(weighted_lists, key, Len(weighted_lists))
           /\ \A i \in 1..Len(weighted_lists) :
                 ScaledAlone(weighted_lists, i) =>
                    \E key \in KeysOf(weighted_lists[i]) :
                       /\ ret.res.val.worddict[key] \in
                             {FPrev(weighted_lists[i][3]), weighted_lists[i][3],
                              FNext(weighted_lists[i][3])}
                       /\ \A other \in KeysOf(weighted_lists[i]) :
                             ~FLess(ret.res.val.worddict[key], ret.res.val.worddict[other])

\* C6, the case reached: two entries have given the same key, one of them
\* with a weight, and the table holds their sum
MergeCollision ==
    /\ ret.op = "merge_lists" /\ ret.res.ok
    /\ Len(ret.args[1]) = 2
    /\ ret.args[1][1][3] # None /\ ret.args[1][2][3] = None
    /\ \E key \in KeysOf(ret.args[1][1]) \cap KeysOf(ret.args[1][2]) :
          FLess(FromNat(42), ret.res.val.worddict[key])

(***************************************************************************)
(* The methods of a table (SpecTable, SpecMut).                            *)
(***************************************************************************)
\* C7: words() gives every key of the table once, by descending frequency and
\* for equal frequency by ascending word, and iteritems() gives the pairs
\* (word, get(word)) in that order.
SortedPermutation ==
    LET worddict == heap[ret.args[1]].worddict
        InOrder(ws) ==
            /\ {ws[i] : i \in 1..Len(ws)} = DOMAIN worddict
            /\ Len(ws) = Cardinality(DOMAIN worddict)
            /\ \A i \in 1..Len(ws), j \in 1..Len(ws) :
                  i < j => \/ FLess(worddict[ws[j]], worddict[ws[i]])
                           \/ (worddict[ws[j]] = worddict[ws[i]] /\ StrLess(ws[i], ws[j]))
    IN /\ ret.op = "words" => (ret.res.ok /\ InOrder(ret.res.val))
       /\ ret.op = "iteritems" =>
             /\ ret.res.ok
             /\ InOrder([i \in 1..Len(ret.res.val) |-> ret.res.val[i][1]])
             /\ \A i \in 1..Len(ret.res.val) :
                   ret.res.val[i][2] = DictGet(worddict, ret.res.val[i][1], FZero)

\* C7, the case reached: iteritems over three words, two of them of the same
\* frequency
ThreeItemsWithTie ==
    /\ ret.op = "iteritems" /\ ret.res.ok
    /\ Len(ret.res.val) = 3
    /\ Cardinality({ret.res.val[i][2] : i \in 1..3}) = 2

\* C9: a sorted_words or max_freq an instance holds stays what it is at every
\* step, changes of the worddict included; words(), iteritems() and max_freq
\* give the value held, storing it when it is computed; max_freq of an empty
\* table raises ValueError and stores nothing.
MemoStable ==
    [][\A id \in 1..Len(heap) :
         /\ \A name \in {"sorted_words", "max_freq"} :
               name \in DOMAIN heap[id] =>
                  (name \in DOMAIN heap'[id] /\ heap'[id][name] = heap[id][name])
         /\ (ret'.op = "words" /\ ret'.args[1] = id) =>
               (ret'.res.ok /\ ret'.res.val = heap'[id].sorted_words)
         /\ (ret'.op = "iteritems" /\ ret'.args[1] = id /\ ret'.res.ok) =>
               [i \in 1..Len(ret'.res.val) |-> ret'.res.val[i][1]] = heap'[id].sorted_words
         /\ (ret'.op = "max_freq" /\ ret'.args[1] = id) =>
               IF ret'.res.ok THEN ret'.res.val = heap'[id].max_freq
               ELSE /\ ret'.res = Raise("ValueError", "max_freq")
                    /\ heap[id].worddict = EmptyDict
                    /\ heap' = heap]_vars

\* C9, the case reached: after a change of the worddict, max_freq gives a
\* frequency the table no longer holds
StaleMaxFreq ==
    /\ ret.op = "max_freq" /\ ret.res.ok
    /\ edits > 0
    /\ ret.res.val \notin Values(heap[ret.args[1]].worddict)

====
